---- MODULE Spec2Model ----
(***************************************************************************)
(* Model of lib/plugins.ts: the Plugins registry (constructor and          *)
(* annotatePluginObj), the call isolation layer (safeCallPluginFun and its *)
(* logError closure), the fan-out handlers built by pluginFunFactory, the  *)
(* capability handles addFailure / addSuccess / addWarning, and            *)
(* getResults.                                                             *)
(*                                                                         *)
(* JavaScript strings are sequences of string tokens (so that + is \o and  *)
(* the empty string is << >>); JavaScript values are records tagged by t.  *)
(***************************************************************************)
EXTENDS Integers, Sequences, FiniteSets, TLC

(* ------------------------------------------------------------------------ *)
(* Bounds of the model                                                      *)
(* ------------------------------------------------------------------------ *)
MaxPlugins == 2
MaxPluginRuns == 2
MaxCapCalls == 3

(* ------------------------------------------------------------------------ *)
(* JavaScript values and the conversions the code applies to them           *)
(* ------------------------------------------------------------------------ *)
Undefined == [t |-> "undefined"]
Null == [t |-> "null"]
True == [t |-> "boolean", b |-> TRUE]
Str(s) == [t |-> "string", s |-> s]
ErrorObj(m, st) == [t |-> "Error", message |-> m, stack |-> st]

\* ToBoolean
Truthy(v) ==
    CASE v.t = "undefined" -> FALSE
      [] v.t = "null" -> FALSE
      [] v.t = "boolean" -> v.b
      [] v.t = "string" -> v.s /= << >>
      [] OTHER -> TRUE

\* ToString, as applied by the + operator with a string operand
ToStr(v) ==
    CASE v.t = "undefined" -> << "undefined" >>
      [] v.t = "null" -> << "null" >>
      [] v.t = "boolean" -> IF v.b THEN << "true" >> ELSE << "false" >>
      [] v.t = "string" -> v.s
      [] OTHER -> << "Error: " >> \o v.message

\* a || b
OrElse(a, b) == IF Truthy(a) THEN a ELSE b

\* property access e.p throws a TypeError when e is null or undefined
Accessible(e) == e.t \notin {"undefined", "null"}
MessageOf(e) == IF e.t = "Error" THEN Str(e.message) ELSE Undefined
StackOf(e) == IF e.t = "Error" THEN Str(e.stack) ELSE Undefined

(* ------------------------------------------------------------------------ *)
(* The eight dispatch points                                                *)
(* ------------------------------------------------------------------------ *)
QHooks == {"setup", "teardown", "postResults", "postTest"}
WebDriverHooks == {"onPageLoad", "onPageStable", "waitForPromise", "waitForCondition"}
Hooks == QHooks \cup WebDriverHooks

PromiseTypeOf(funName) == IF funName \in QHooks THEN "Q" ELSE "WEBDRIVER"

\* Mutant of the factory calls: waitForCondition without its fail value
FailReturnValOf_Default(funName) == Undefined

\* The failReturnVal each handler was built with
FailReturnValOf(funName) == IF funName = "waitForCondition" THEN True ELSE Undefined

(* ------------------------------------------------------------------------ *)
(* Plugin objects and configuration entries                                 *)
(* ------------------------------------------------------------------------ *)
\* Objects a configuration can reach: two inline definitions, the module at
\* the resolved path and the module of the package.
ObjIds == {"o1", "o2", "mp", "mk"}
NoObj == "none"

\* PluginConfig: absent string fields are the empty string (both are falsy)
PluginConf(n, p, k, o) == [name |-> n, path |-> p, package |-> k, inline |-> o]

ConfNames == {<< >>, << "N" >>}
ConfPaths == {<< >>, << "p" >>}
ConfPackages == {<< >>, << "k" >>}
ConfInlines == {NoObj, "o1", "o2"}
AllConfs ==
    {PluginConf(n, p, k, o) : n \in ConfNames, p \in ConfPaths,
                              k \in ConfPackages, o \in ConfInlines}

\* config.plugins: every list of at most MaxPlugins entries
AllConfigs == UNION {[1..n -> AllConfs] : n \in 0..MaxPlugins}

\* ConfigParser.resolveFilePatterns (external): the matches of the pattern
ResolvedP == << "/conf/p" >>
MatchSets == {<< >>, << ResolvedP >>}

\* require(path) (external): the module exported at a path or package name
Require(path) == IF path = ResolvedP THEN "mp" ELSE "mk"

\* A plugin object before loading: its own name (if any) and the hooks it
\* defines; annotated counts the runs of annotatePluginObj on the object.
PluginObj(n, hs) == [name |-> n, config |-> << >>, annotated |-> 0, hooks |-> hs]

HookPairs ==
    {<< "setup", "waitForCondition" >>, << "teardown", "onPageLoad" >>,
     << "postResults", "onPageStable" >>, << "postTest", "waitForPromise" >>}

\* o1 defines both hooks of the pair, o2 and mp the first, mk the second
HooksOfObj(o, pair) ==
    CASE o = "o1" -> {pair[1], pair[2]}
      [] o = "mk" -> {pair[2]}
      [] OTHER -> {pair[1]}

OwnNames(o) == {<< >>, << "own-", o >>}

AllWorlds ==
    {[o \in ObjIds |-> PluginObj(names[o], HooksOfObj(o, << "setup", "waitForCondition" >>))] :
        names \in {f \in [ObjIds -> {<< >>} \cup UNION {OwnNames(o) : o \in ObjIds}] :
                      \A o \in ObjIds : f[o] \in OwnNames(o)}}

\* The worlds and configurations of the runs that go on after loading
RunWorlds ==
    {[o \in ObjIds |-> PluginObj(IF o = "o1" THEN << "A" >> ELSE << >>, HooksOfObj(o, pair))] :
        pair \in HookPairs}

RunConfigs ==
    {<< PluginConf(<< "N" >>, << >>, << >>, "o1"), PluginConf(<< >>, << >>, << >>, "o2") >>,
     << PluginConf(<< "N" >>, << >>, << >>, "o2"), PluginConf(<< >>, << >>, << >>, "o2") >>,
     << PluginConf(<< >>, << "p" >>, << "k" >>, "o1") >>,
     << PluginConf(<< >>, << >>, << "k" >>, NoObj) >>}

\* The configuration of the single inline plugin o1 (named "A" in RunWorlds)
ConfigA == << PluginConf(<< >>, << >>, << >>, "o1") >>

(* ------------------------------------------------------------------------ *)
(* State                                                                    *)
(* ------------------------------------------------------------------------ *)
VARIABLES
    phase,            \* "new", "loaded", or "failed" (the constructor threw)
    objs,             \* the plugin objects: ObjIds -> PluginObj
    pluginObjs,       \* this.pluginObjs: the registered objects, in order
    assertions,       \* this.assertions: << [specName, list] >> in key order
    resultsReported,  \* this.resultsReported
    inflight,         \* the dispatches whose calls or combined awaitable are open
    nDispatched,      \* number of dispatches issued
    nPluginRuns,      \* the budget used: hook invocations, capability calls
                      \* made outside a hook body, dispatches without a hook
    outcome,          \* what the last operation returned or raised to its caller
    printed           \* what the last operation wrote through the logger

vars == << phase, objs, pluginObjs, assertions, resultsReported, inflight,
           nDispatched, nPluginRuns, outcome, printed >>

(* ------------------------------------------------------------------------ *)
(* Plugins.constructor and annotatePluginObj                                *)
(* ------------------------------------------------------------------------ *)
\* Mutant of the name chain: the package is tried before the path
AssignedName_PackageFirst(objName, conf, i) ==
    OrElse(Str(objName),
      OrElse(Str(conf.name),
        OrElse(Str(conf.package),
          OrElse(Str(conf.path), Str(<< "Plugin #" >> \o << ToString(i) >>))))).s

\* obj.name || conf.name || conf.path || conf.package || ('Plugin #' + i)
AssignedName(objName, conf, i) ==
    OrElse(Str(objName),
      OrElse(Str(conf.name),
        OrElse(Str(conf.path),
          OrElse(Str(conf.package), Str(<< "Plugin #" >> \o << ToString(i) >>))))).s

\* annotatePluginObj(obj, conf, i): name, config and the three handles
AnnotatePluginObj(os, o, conf, i) ==
    [os EXCEPT ![o] = [@ EXCEPT !.name = AssignedName(@, conf, i),
                                !.config = << conf >>,
                                !.annotated = @ + 1]]

\* Mutant of the forEach callback: the inline definition is tried before the
\* path and the package
LoadEntry_InlineFirst(conf, i, matches, st) ==
    LET usesPath == Truthy(Str(conf.path))
        first == IF Len(matches) > 0 THEN Str(matches[1]) ELSE Undefined
        path == IF usesPath THEN first ELSE Str(conf.package)
    IN  IF conf.inline /= NoObj
        THEN [st EXCEPT !.objs = AnnotatePluginObj(@, conf.inline, conf, i),
                        !.pluginObjs = Append(@, conf.inline)]
        ELSE IF usesPath /\ ~Truthy(first)
        THEN [st EXCEPT !.threw = << Str(<< "Invalid path to plugin: " >> \o conf.path) >>]
        ELSE IF ~Truthy(path)
        THEN [st EXCEPT !.threw = << Str(<< "Plugin configuration did not contain a valid path or inline definition." >>) >>]
        ELSE [st EXCEPT !.objs = AnnotatePluginObj(@, Require(path.s), conf, i),
                        !.pluginObjs = Append(@, Require(path.s))]

\* Mutant of the forEach callback: a path without matches falls back to the
\* package instead of throwing
LoadEntry_NoMatchFallsBack(conf, i, matches, st) ==
    LET usesPath == Truthy(Str(conf.path)) /\ Len(matches) > 0
        path == IF usesPath THEN Str(matches[1]) ELSE Str(conf.package)
    IN  IF ~Truthy(path) /\ conf.inline = NoObj
        THEN [st EXCEPT !.threw = << Str(<< "Plugin configuration did not contain a valid path or inline definition." >>) >>]
        ELSE LET pluginObj == IF Truthy(path) THEN Require(path.s) ELSE conf.inline
             IN  [st EXCEPT !.objs = AnnotatePluginObj(@, pluginObj, conf, i),
                            !.pluginObjs = Append(@, pluginObj)]

\* The body of the forEach callback for entry i (0-based); st.threw holds the
\* error that ended the loop, if any.
LoadEntry(conf, i, matches, st) ==
    LET usesPath == Truthy(Str(conf.path))
        first == IF Len(matches) > 0 THEN Str(matches[1]) ELSE Undefined
        path == IF usesPath THEN first ELSE Str(conf.package)
    IN  IF usesPath /\ ~Truthy(first)
        THEN [st EXCEPT !.threw = << Str(<< "Invalid path to plugin: " >> \o conf.path) >>]
        ELSE IF ~Truthy(path) /\ conf.inline = NoObj
        THEN [st EXCEPT !.threw = << Str(<< "Plugin configuration did not contain a valid path or inline definition." >>) >>]
        ELSE LET pluginObj == IF Truthy(path) THEN Require(path.s) ELSE conf.inline
             IN  [st EXCEPT !.objs = AnnotatePluginObj(@, pluginObj, conf, i),
                            !.pluginObjs = Append(@, pluginObj)]

RECURSIVE LoadFrom(_, _, _, _)
LoadFrom(confs, i, matches, st) ==
    IF i >= Len(confs) \/ st.threw /= << >> THEN st
    ELSE LoadFrom(confs, i + 1, matches, LoadEntry(confs[i + 1], i, matches, st))

\* new Plugins(config), with config.plugins = confs
Construct(confs, matches) ==
    /\ phase = "new"
    /\ LET st == LoadFrom(confs, 0, matches, [objs |-> objs, pluginObjs |-> << >>, threw |-> << >>])
       IN  /\ objs' = st.objs
           /\ pluginObjs' = st.pluginObjs
           /\ phase' = IF st.threw = << >> THEN "loaded" ELSE "failed"
           /\ outcome' = [op |-> "constructor", plugins |-> confs, matches |-> matches,
                          raised |-> st.threw /= << >>, error |-> st.threw]
    /\ assertions' = << >>
    /\ resultsReported' = FALSE
    /\ printed' = << >>
    /\ UNCHANGED << inflight, nDispatched, nPluginRuns >>

NoOutcome == [op |-> "none", raised |-> FALSE]

InitIn(worlds) ==
    /\ phase = "new"
    /\ objs \in worlds
    /\ pluginObjs = << >>
    /\ assertions = << >>
    /\ resultsReported = FALSE
    /\ inflight = << >>
    /\ nDispatched = 0
    /\ nPluginRuns = 0
    /\ outcome = NoOutcome
    /\ printed = << >>

(* ------------------------------------------------------------------------ *)
(* The assertion store and the capability handles                           *)
(* ------------------------------------------------------------------------ *)
\* An info / options argument: an object with optional specName, stackTrace
Info(sn, st) == [t |-> "object", specName |-> sn, stackTrace |-> st]

HasSpec(store, specName) == \E k \in 1..Len(store) : store[k].specName = specName

\* Mutant of the push: the list of the spec name is created anew each time
PushAssertion_Reset(store, specName, assertion) ==
    IF HasSpec(store, specName)
    THEN [k \in 1..Len(store) |->
            IF store[k].specName = specName
            THEN [store[k] EXCEPT !.list = << assertion >>]
            ELSE store[k]]
    ELSE Append(store, [specName |-> specName, list |-> << assertion >>])

\* this.assertions[specName] = this.assertions[specName] || []; then push
PushAssertion(store, specName, assertion) ==
    IF HasSpec(store, specName)
    THEN [k \in 1..Len(store) |->
            IF store[k].specName = specName
            THEN [store[k] EXCEPT !.list = Append(@, assertion)]
            ELSE store[k]]
    ELSE Append(store, [specName |-> specName, list |-> << assertion >>])

AlreadyReported ==
    ErrorObj(<< "Cannot add new tests results, since they were already reported." >>,
             << "Error: Cannot add new tests results", " at addAssertion" >>)

\* Mutant of addAssertion: the resultsReported check is missing
AddAssertion_NoGate(store, reported, objName, info, passed, message) ==
    LET inf == OrElse(info, Info(Undefined, Undefined))
        specName == OrElse(inf.specName, Str(objName \o << " Plugin Tests" >>)).s
        assertion ==
            IF passed THEN [passed |-> TRUE]
            ELSE IF Truthy(inf.stackTrace)
                 THEN [passed |-> FALSE, errorMsg |-> message, stackTrace |-> inf.stackTrace]
                 ELSE [passed |-> FALSE, errorMsg |-> message]
    IN  [raised |-> FALSE, error |-> Undefined,
         store |-> PushAssertion(store, specName, assertion)]

\* Mutant of addAssertion: only failures are refused after the report
AddAssertion_GateFailuresOnly(store, reported, objName, info, passed, message) ==
    IF reported /\ ~passed
    THEN [raised |-> TRUE, error |-> AlreadyReported, store |-> store]
    ELSE [raised |-> FALSE, error |-> Undefined,
          store |-> IF reported THEN store
                    ELSE AddAssertion_NoGate(store, reported, objName, info, passed,
                                             message).store]

\* addAssertion(info, passed, message) of the object named objName: the new
\* store, or the error thrown
AddAssertion(store, reported, objName, info, passed, message) ==
    IF reported
    THEN [raised |-> TRUE, error |-> AlreadyReported, store |-> store]
    ELSE LET inf == OrElse(info, Info(Undefined, Undefined))
             specName == OrElse(inf.specName, Str(objName \o << " Plugin Tests" >>)).s
             assertion ==
                 IF passed THEN [passed |-> TRUE]
                 ELSE IF Truthy(inf.stackTrace)
                      THEN [passed |-> FALSE, errorMsg |-> message,
                            stackTrace |-> inf.stackTrace]
                      ELSE [passed |-> FALSE, errorMsg |-> message]
         IN  [raised |-> FALSE, error |-> Undefined,
              store |-> PushAssertion(store, specName, assertion)]

\* The line addWarning hands to logger.warn
WarningLine(objName, message, options) ==
    LET opts == OrElse(options, Info(Undefined, Undefined))
    IN  [level |-> "warn",
         text |-> << "Warning " >>
                  \o (IF Truthy(opts.specName)
                      THEN << "in " >> \o ToStr(opts.specName)
                      ELSE << "from \"" >> \o objName \o << "\" plugin" >>)
                  \o << ": " >> \o ToStr(message)]

(* ------------------------------------------------------------------------ *)
(* printPluginResults and getResults                                        *)
(* ------------------------------------------------------------------------ *)
RECURSIVE AllPassed(_)
AllPassed(list) ==
    IF list = << >> THEN TRUE ELSE Head(list).passed /\ AllPassed(Tail(list))

RECURSIVE FailureLines(_)
FailureLines(list) ==
    IF list = << >> THEN << >>
    ELSE LET a == Head(list)
             hasStack == "stackTrace" \in DOMAIN a /\ Truthy(a.stackTrace)
         IN  (IF a.passed THEN << >>
              ELSE << [level |-> "error", text |-> ToStr(a.errorMsg)] >>
                   \o (IF hasStack
                       THEN << [level |-> "error", text |-> ToStr(a.stackTrace)] >>
                       ELSE << >>))
             \o FailureLines(Tail(list))

\* printPluginResults(specResults): the lines handed to the logger
RECURSIVE PrintPluginResults(_)
PrintPluginResults(specResults) ==
    IF specResults = << >> THEN << >>
    ELSE LET r == Head(specResults)
             passed == AllPassed(r.assertions)
         IN  << [level |-> "info", pass |-> passed, text |-> r.description] >>
             \o (IF passed THEN << >> ELSE FailureLines(r.assertions))
             \o PrintPluginResults(Tail(specResults))

\* .filter(assertion => !assertion.passed).length
RECURSIVE CountFailed(_)
CountFailed(list) ==
    IF list = << >> THEN 0
    ELSE (IF Head(list).passed THEN 0 ELSE 1) + CountFailed(Tail(list))

\* Mutant of the loop of getResults: failedCount is assigned, not added to
RECURSIVE Flatten_Overwrite(_, _, _)
Flatten_Overwrite(store, k, results) ==
    IF k > Len(store) THEN results
    ELSE Flatten_Overwrite(store, k + 1,
            [failedCount |-> CountFailed(store[k].list),
             specResults |-> Append(results.specResults,
                                [description |-> store[k].specName,
                                 assertions |-> store[k].list])])

\* The loop of getResults over the keys of this.assertions, from key k on
RECURSIVE Flatten(_, _, _)
Flatten(store, k, results) ==
    IF k > Len(store) THEN results
    ELSE Flatten(store, k + 1,
            [failedCount |-> results.failedCount + CountFailed(store[k].list),
             specResults |-> Append(results.specResults,
                                [description |-> store[k].specName,
                                 assertions |-> store[k].list])])

ResultsOf(store) == Flatten(store, 1, [failedCount |-> 0, specResults |-> << >>])

\* Mutant of getResults: the flag is flipped instead of set
GetResults_Toggle ==
    /\ phase = "loaded"
    /\ LET results == ResultsOf(assertions)
       IN  /\ printed' = PrintPluginResults(results.specResults)
           /\ outcome' = [op |-> "getResults", raised |-> FALSE, value |-> results]
    /\ resultsReported' = ~resultsReported
    /\ UNCHANGED << phase, objs, pluginObjs, assertions, inflight, nDispatched,
                    nPluginRuns >>

\* Mutant of getResults: the store is emptied once it has been reported
GetResults_Drain ==
    /\ phase = "loaded"
    /\ LET results == ResultsOf(assertions)
       IN  /\ printed' = PrintPluginResults(results.specResults)
           /\ outcome' = [op |-> "getResults", raised |-> FALSE, value |-> results]
    /\ resultsReported' = TRUE
    /\ assertions' = << >>
    /\ UNCHANGED << phase, objs, pluginObjs, inflight, nDispatched, nPluginRuns >>

\* getResults()
GetResults ==
    /\ phase = "loaded"
    /\ LET results == ResultsOf(assertions)
       IN  /\ printed' = PrintPluginResults(results.specResults)
           /\ outcome' = [op |-> "getResults", raised |-> FALSE, value |-> results]
    /\ resultsReported' = TRUE
    /\ UNCHANGED << phase, objs, pluginObjs, assertions, inflight, nDispatched,
                    nPluginRuns >>

(* ------------------------------------------------------------------------ *)
(* Capability calls made by plugin code outside a hook body                 *)
(* ------------------------------------------------------------------------ *)
Registered == {pluginObjs[k] : k \in 1..Len(pluginObjs)}

Messages == {Str(<< "x" >>)}
SuccessInfos == {Undefined, Info(Str(<< "S" >>), Undefined)}
FailureInfos == {Undefined, Info(Str(<< "S" >>), Str(<< "trace" >>))}

\* obj.addFailure(message, info) and obj.addSuccess(options)
CallAddAssertion(op, o, info, passed, message) ==
    /\ phase = "loaded"
    /\ LET r == AddAssertion(assertions, resultsReported, objs[o].name, info, passed, message)
       IN  /\ assertions' = r.store
           /\ outcome' = [op |-> op, obj |-> o, info |-> info, raised |-> r.raised,
                          error |-> r.error]
    /\ printed' = << >>
    /\ nPluginRuns' = nPluginRuns + 1
    /\ UNCHANGED << phase, objs, pluginObjs, resultsReported, inflight, nDispatched >>

AddFailure ==
    /\ nPluginRuns < MaxPluginRuns
    /\ \E o \in Registered, message \in Messages, info \in FailureInfos :
        CallAddAssertion("addFailure", o, info, FALSE, message)

AddSuccess ==
    /\ nPluginRuns < MaxPluginRuns
    /\ \E o \in Registered, info \in SuccessInfos :
        CallAddAssertion("addSuccess", o, info, TRUE, Undefined)

\* obj.addWarning(message, options)
AddWarning ==
    /\ phase = "loaded"
    /\ nPluginRuns < MaxPluginRuns
    /\ \E o \in Registered, message \in Messages, options \in SuccessInfos :
        /\ printed' = << WarningLine(objs[o].name, message, options) >>
        /\ outcome' = [op |-> "addWarning", obj |-> o, raised |-> FALSE, error |-> Undefined]
        /\ nPluginRuns' = nPluginRuns + 1
        /\ UNCHANGED << phase, objs, pluginObjs, assertions, resultsReported,
                        inflight, nDispatched >>

(* ------------------------------------------------------------------------ *)
(* safeCallPluginFun                                                        *)
(* ------------------------------------------------------------------------ *)
\* What a hook can be thrown or rejected with
Boom == ErrorObj(<< "boom" >>, << "Error: boom", " at hook" >>)
Causes == {Boom, Str(<< "oops" >>), Null}

\* What a hook resolves to
HookValues == {Str(<< "ok" >>)}

\* What one invocation of a hook does: return a plain value, return an
\* awaitable, throw, or call one of its handles and then return.
HookOutcomes ==
    {[kind |-> "return", value |-> v] : v \in HookValues}
    \cup {[kind |-> "thenable"]}
    \cup {[kind |-> "throw", cause |-> c] : c \in Causes}
    \cup {[kind |-> "body", cap |-> c] : c \in {"addFailure", "addSuccess"}}

CannotRead(e) ==
    ErrorObj(<< "Cannot read property 'message' of " >> \o ToStr(e),
             << "TypeError", " at logError" >>)

\* 'Failure during ' + funName + ': ' + e.message || e
FailureMessage(funName, e) ==
    OrElse(Str(<< "Failure during ", funName, ": " >> \o ToStr(MessageOf(e))), e)

\* 'Failure during ' + funName + ': ' + (e.message || e)
RuntimeMessage(funName, e) ==
    Str(<< "Failure during ", funName, ": " >> \o ToStr(OrElse(MessageOf(e), e)))

\* logError(e) up to deferred.fulfill: the store and the log lines after it,
\* or the TypeError of reading a property of null / undefined
LogError(store, lines, reported, objName, funName, e) ==
    IF ~Accessible(e)
    THEN [threw |-> << CannotRead(e) >>, store |-> store, printed |-> lines]
    ELSE IF reported
    THEN [threw |-> << >>, store |-> store,
          printed |-> lines \o PrintPluginResults(<<
              [description |-> objName \o << " Runtime" >>,
               assertions |-> << [passed |-> FALSE,
                                  errorMsg |-> RuntimeMessage(funName, e),
                                  stackTrace |-> StackOf(e)] >>] >>)]
    ELSE LET r == AddAssertion(store, reported, objName,
                               Info(Undefined, StackOf(e)), FALSE,
                               FailureMessage(funName, e))
         IN  [threw |-> << >>, store |-> r.store, printed |-> lines]

\* The result of running the hook body: what it returned or threw
HookRun(store, reported, objName, out) ==
    CASE out.kind = "return" ->
            [threw |-> << >>, result |-> out.value, thenable |-> FALSE, store |-> store]
      [] out.kind = "thenable" ->
            [threw |-> << >>, result |-> Undefined, thenable |-> TRUE, store |-> store]
      [] out.kind = "throw" ->
            [threw |-> << out.cause >>, result |-> Undefined, thenable |-> FALSE,
             store |-> store]
      [] OTHER ->
            LET r == AddAssertion(store, reported, objName, Undefined,
                                  out.cap = "addSuccess", Str(<< "from hook" >>))
            IN  [threw |-> IF r.raised THEN << r.error >> ELSE << >>,
                 result |-> Undefined, thenable |-> FALSE, store |-> r.store]

\* safeCallPluginFun(pluginObj, funName, args, promiseType, failReturnVal) up
\* to its return: the call's deferred (pending, or fulfilled with a value),
\* or the error it throws to its caller. A call records what its hook did
\* (returned, threw, or returned a thenable that later resolved or rejected)
\* and the state of its deferred: pending, fulfilled, raised (the call threw
\* and returned no awaitable) or abandoned (the rejection handler threw, so
\* the deferred stays pending for ever).
SafeCallPluginFun(store, lines, reported, o, objName, funName, failReturnVal, out) ==
    LET run == HookRun(store, reported, objName, out)
        call == [obj |-> o, promiseType |-> PromiseTypeOf(funName)]
    IN  IF run.threw /= << >>
        THEN LET le == LogError(run.store, lines, reported, objName, funName, run.threw[1])
             IN  IF le.threw /= << >>
                 THEN [threw |-> le.threw, store |-> le.store, printed |-> le.printed,
                       call |-> call @@ [state |-> "raised", value |-> Undefined, hook |-> "threw"]]
                 ELSE [threw |-> << >>, store |-> le.store, printed |-> le.printed,
                       call |-> call @@ [state |-> "fulfilled", value |-> failReturnVal,
                                         hook |-> "threw"]]
        ELSE IF run.thenable
        THEN [threw |-> << >>, store |-> run.store, printed |-> lines,
              call |-> call @@ [state |-> "pending", value |-> Undefined, hook |-> "thenable"]]
        ELSE [threw |-> << >>, store |-> run.store, printed |-> lines,
              call |-> call @@ [state |-> "fulfilled", value |-> run.result,
                                 hook |-> "returned"]]

(* ------------------------------------------------------------------------ *)
(* pluginFunFactory: the eight fan-out handlers                             *)
(* ------------------------------------------------------------------------ *)
\* The registration slots whose object defines the hook
Eligible(funName) ==
    {k \in 1..Len(pluginObjs) : funName \in objs[pluginObjs[k]].hooks}

\* self.pluginObjs.forEach(...) from slot k on; outs gives what each invoked
\* hook does. An error thrown by safeCallPluginFun ends the loop.
RECURSIVE InvokeAll(_, _, _, _)
InvokeAll(funName, k, outs, st) ==
    IF k > Len(pluginObjs) \/ st.threw /= << >> THEN st
    ELSE IF k \notin Eligible(funName) THEN InvokeAll(funName, k + 1, outs, st)
    ELSE LET o == pluginObjs[k]
             r == SafeCallPluginFun(st.store, st.printed, resultsReported, o,
                                    objs[o].name, funName, FailReturnValOf(funName),
                                    outs[k])
         IN  InvokeAll(funName, k + 1, outs,
                       [threw |-> r.threw, store |-> r.store, printed |-> r.printed,
                        calls |-> Append(st.calls, r.call @@ [slot |-> k])])

\* The hooks the runner dispatches in a run: every hook some registered
\* object defines, and one hook that none defines (they all behave alike).
Defined == UNION {objs[o].hooks : o \in Registered}
DispatchedHooks ==
    Defined \cup (IF Hooks \subseteq Defined THEN {}
                  ELSE {CHOOSE h \in Hooks : h \notin Defined})

\* What a dispatch that invokes n hooks takes from the budget MaxPluginRuns
Cost(n) == IF n = 0 THEN 1 ELSE n

\* plugins.<funName>(...): one of setup, teardown, postResults, postTest,
\* onPageLoad, onPageStable, waitForPromise, waitForCondition
Dispatch ==
    /\ phase = "loaded"
    /\ \E funName \in DispatchedHooks :
        /\ nPluginRuns + Cost(Cardinality(Eligible(funName))) <= MaxPluginRuns
        /\ \E outs \in [Eligible(funName) -> HookOutcomes] :
              LET st == InvokeAll(funName, 1, outs,
                          [threw |-> << >>, store |-> assertions, printed |-> << >>,
                           calls |-> << >>])
                  d == [id |-> nDispatched + 1, funName |-> funName, calls |-> st.calls,
                        status |-> IF st.threw = << >> THEN "pending" ELSE "threw"]
              IN  /\ assertions' = st.store
                  /\ printed' = st.printed
                  /\ inflight' = Append(inflight, d)
                  /\ nPluginRuns' = nPluginRuns + Cost(Len(st.calls))
                  /\ outcome' = [op |-> "dispatch", raised |-> st.threw /= << >>,
                                 error |-> st.threw, id |-> d.id, outs |-> outs]
    /\ nDispatched' = nDispatched + 1
    /\ UNCHANGED << phase, objs, pluginObjs, resultsReported >>

PendingCalls ==
    UNION {{<< d, k >> : k \in {x \in 1..Len(inflight[d].calls) :
                                    inflight[d].calls[x].state = "pending"}} :
              d \in 1..Len(inflight)}

\* The awaitable a hook returned resolves: deferred.fulfill(value)
HookResolves ==
    \E dk \in PendingCalls, v \in HookValues :
        LET d == dk[1]
            k == dk[2]
        IN  /\ inflight' = [inflight EXCEPT ![d].calls[k].state = "fulfilled",
                                            ![d].calls[k].value = v]
            /\ outcome' = [op |-> "hookResolved", raised |-> FALSE,
                           id |-> inflight[d].id, call |-> k]
            /\ printed' = << >>
            /\ UNCHANGED << phase, objs, pluginObjs, assertions, resultsReported,
                            nDispatched, nPluginRuns >>

\* The awaitable a hook returned rejects: logError(e) in the rejection handler
HookRejects ==
    \E dk \in PendingCalls, e \in Causes :
        LET d == dk[1]
            k == dk[2]
            funName == inflight[d].funName
            o == inflight[d].calls[k].obj
            le == LogError(assertions, << >>, resultsReported, objs[o].name, funName, e)
        IN  /\ assertions' = le.store
            /\ printed' = le.printed
            /\ inflight' =
                 IF le.threw /= << >>
                 THEN [inflight EXCEPT ![d].calls[k].state = "abandoned",
                                       ![d].calls[k].hook = "rejected"]
                 ELSE [inflight EXCEPT ![d].calls[k].state = "fulfilled",
                                       ![d].calls[k].value = FailReturnValOf(funName),
                                       ![d].calls[k].hook = "rejected"]
            /\ outcome' = [op |-> "hookRejected", raised |-> le.threw /= << >>,
                           error |-> le.threw, cause |-> e,
                           id |-> inflight[d].id, call |-> k]
            /\ UNCHANGED << phase, objs, pluginObjs, resultsReported,
                            nDispatched, nPluginRuns >>

AllFulfilled(d) == \A k \in 1..Len(d.calls) : d.calls[k].state = "fulfilled"

ResultArray(d) == [k \in 1..Len(d.calls) |-> d.calls[k].value]

RemoveAt(q, i) == [j \in 1..(Len(q) - 1) |-> IF j < i THEN q[j] ELSE q[j + 1]]

\* q.all(promises) / webdriver.promise.all(promises) of the dispatch at
\* position d resolves
SettleAt(d) ==
    /\ inflight[d].status = "pending"
    /\ AllFulfilled(inflight[d])
    /\ outcome' = [op |-> "settled", raised |-> FALSE, dispatch |-> inflight[d],
                   value |-> ResultArray(inflight[d])]
    /\ inflight' = RemoveAt(inflight, d)
    /\ printed' = << >>
    /\ UNCHANGED << phase, objs, pluginObjs, assertions, resultsReported,
                    nDispatched, nPluginRuns >>

Settle == \E d \in 1..Len(inflight) : SettleAt(d)

\* The combined awaitable of the dispatch numbered id resolves
SettleId(id) == \E d \in 1..Len(inflight) : inflight[d].id = id /\ SettleAt(d)

Init == InitIn(RunWorlds)
Load ==
    /\ phase = "new"
    /\ \E confs \in RunConfigs : Construct(confs, << ResolvedP >>)
Next ==
    \/ Load
    \/ GetResults
    \/ AddFailure
    \/ AddSuccess
    \/ AddWarning
    \/ Dispatch
    \/ HookResolves
    \/ HookRejects
    \/ Settle
Spec == Init /\ [][Next]_vars

\* The runs of Spec and those of the registry of the single plugin A
LoadA == phase = "new" /\ Construct(ConfigA, << ResolvedP >>)
NextA == LoadA \/ Next
SpecA == Init /\ [][NextA]_vars

\* The runs in which no hook that returns an awaitable is started once the
\* results are reported: an awaitable that rejects after the report belongs
\* to a hook dispatched before it
DispatchLate ==
    /\ Dispatch
    /\ resultsReported =>
          \A k \in DOMAIN outcome'.outs : outcome'.outs[k].kind /= "thenable"
NextLate ==
    \/ Load
    \/ GetResults
    \/ AddFailure
    \/ AddSuccess
    \/ AddWarning
    \/ DispatchLate
    \/ HookResolves
    \/ HookRejects
    \/ Settle
SpecLate == Init /\ [][NextLate]_vars

\* The promise libraries run the continuation of a combined awaitable once
\* all of its members are fulfilled; nothing makes a plugin's own awaitable
\* settle.
SpecFair == Spec /\ \A id \in 1..MaxPluginRuns : WF_vars(SettleId(id))

(* ------------------------------------------------------------------------ *)
(* Properties                                                               *)
(* ------------------------------------------------------------------------ *)
\* Every call of every open dispatch, as << dispatch record, call record >>
OpenCalls ==
    UNION {{<< inflight[d], inflight[d].calls[k] >> : k \in 1..Len(inflight[d].calls)} :
              d \in 1..Len(inflight)}

HookFailed(c) == c.hook \in {"threw", "rejected"}
HookKnown(c) == c.hook /= "thenable"

\* C1: safeCallPluginFun never throws to its caller, and once the hook's
\* outcome is known the awaitable it returned is fulfilled: with a value of
\* the hook when it returned or resolved, with the fail value when it threw
\* or its awaitable rejected.
C1_SafeCallAlwaysFulfils ==
    /\ outcome.op = "dispatch" => ~outcome.raised
    /\ outcome.op = "hookRejected" => ~outcome.raised
    /\ \A dc \in OpenCalls :
          HookKnown(dc[2]) =>
            /\ dc[2].state = "fulfilled"
            /\ HookFailed(dc[2]) => dc[2].value = FailReturnValOf(dc[1].funName)
            /\ ~HookFailed(dc[2]) => dc[2].value \in HookValues \cup {Undefined}

\* C2: a step that ends with resultsReported true (the publishing step and
\* every step after it) leaves the assertion store as it was.
C2_StoreFrozenOnceReported ==
    [][resultsReported' => assertions' = assertions]_vars

\* C2 witness: a hook's awaitable rejected after publication, with a
\* non-empty store.
C2_Witness ==
    resultsReported /\ assertions /= << >> /\ outcome.op = "hookRejected"

\* C3: addFailure and addSuccess raise exactly when results were already
\* reported; addWarning never raises, only logs, and changes neither the
\* store nor resultsReported.
C3_HandlesAfterReport ==
    [][/\ outcome'.op \in {"addFailure", "addSuccess"} =>
            (outcome'.raised <=> resultsReported)
       /\ outcome'.op = "addWarning" =>
            /\ ~outcome'.raised
            /\ printed' /= << >>
            /\ assertions' = assertions
            /\ resultsReported' = resultsReported]_vars

\* C3 witness: addSuccess is called after getResults and raises.
C3_Witness ==
    resultsReported /\ outcome.op = "addSuccess" /\ outcome.raised

\* C4: resultsReported is false after construction, turns true only in a
\* getResults step and never turns false again.
C4_ReportedMonotonic ==
    [][/\ outcome'.op = "constructor" => ~resultsReported'
       /\ resultsReported => resultsReported'
       /\ (~resultsReported /\ resultsReported') => outcome'.op = "getResults"]_vars

\* C4 witness: results are reported and a later dispatch has settled.
C4_Witness ==
    resultsReported /\ outcome.op = "settled" /\ Len(outcome.value) > 0

\* The slots whose object defines funName, in registration order
RECURSIVE EligibleSlots(_, _)
EligibleSlots(funName, k) ==
    IF k > Len(pluginObjs) THEN << >>
    ELSE (IF funName \in objs[pluginObjs[k]].hooks THEN << k >> ELSE << >>)
         \o EligibleSlots(funName, k + 1)

\* C5: a dispatch invokes the hook once on each registered instance that
\* defines it, in registration order, and on no other; its combined
\* awaitable resolves to the calls' values in that order.
C5_DispatchCoversDefiners ==
    /\ \A d \in 1..Len(inflight) :
          LET slots == EligibleSlots(inflight[d].funName, 1)
              calls == inflight[d].calls
          IN  /\ Len(calls) = Len(slots)
              /\ \A k \in 1..Len(calls) :
                    calls[k].slot = slots[k] /\ calls[k].obj = pluginObjs[slots[k]]
    /\ outcome.op = "settled" =>
          LET slots == EligibleSlots(outcome.dispatch.funName, 1)
              calls == outcome.dispatch.calls
          IN  /\ Len(outcome.value) = Len(slots)
              /\ \A k \in 1..Len(slots) :
                    calls[k].slot = slots[k] /\ outcome.value[k] = calls[k].value

DispatchById(q, id) == q[CHOOSE d \in 1..Len(q) : q[d].id = id]

RECURSIVE CountAssertions(_)
CountAssertions(store) ==
    IF store = << >> THEN 0 ELSE Len(Head(store).list) + CountAssertions(Tail(store))

\* C6: before results are reported, a hook whose awaitable rejects with a
\* cause leaves what the same hook throwing that cause synchronously leaves:
\* one more assertion in the store (the same one), the call fulfilled with
\* the fail value, and nothing raised.
C6_ThrowAndRejectAgree ==
    [][(outcome'.op = "hookRejected" /\ ~resultsReported) =>
        LET d == DispatchById(inflight, outcome'.id)
            c == d.calls[outcome'.call]
            after == DispatchById(inflight', outcome'.id).calls[outcome'.call]
            sync == SafeCallPluginFun(assertions, << >>, resultsReported, c.obj,
                                      objs[c.obj].name, d.funName,
                                      FailReturnValOf(d.funName),
                                      [kind |-> "throw", cause |-> outcome'.cause])
        IN  /\ sync.threw = << >>
            /\ ~outcome'.raised
            /\ assertions' = sync.store
            /\ CountAssertions(assertions') = CountAssertions(assertions) + 1
            /\ after.state = "fulfilled"
            /\ sync.call.state = "fulfilled"
            /\ after.value = sync.call.value
            /\ after.value = FailReturnValOf(d.funName)]_vars

\* The failed assertions of a store, as << spec index, list index >>
FailedIn(store) ==
    UNION {{<< k, j >> : j \in {x \in 1..Len(store[k].list) : ~store[k].list[x].passed}} :
              k \in 1..Len(store)}

\* C7: getResults returns one record per spec name of the store, holding that
\* name and that spec's assertions in order, and failedCount is the number
\* of assertions of the store with passed false; summing again over the
\* same store gives the same count.
C7_ResultsFlattenStore ==
    outcome.op = "getResults" =>
        LET r == outcome.value
        IN  /\ Len(r.specResults) = Len(assertions)
            /\ \A k \in 1..Len(assertions) :
                  /\ r.specResults[k].description = assertions[k].specName
                  /\ r.specResults[k].assertions = assertions[k].list
                  /\ \A j \in 1..Len(assertions) :
                        j /= k => assertions[j].specName /= assertions[k].specName
            /\ r.failedCount = Cardinality(FailedIn(assertions))
            /\ ResultsOf(assertions).failedCount = r.failedCount

\* C7 witness: getResults over a store of two specs, the first with a failed
\* assertion and the second with a passed one.
C7_Witness ==
    /\ outcome.op = "getResults"
    /\ Len(outcome.value.specResults) = 2
    /\ outcome.value.failedCount = 1
    /\ ~assertions[1].list[1].passed

ExpectedFailValue(funName) == IF funName = "waitForCondition" THEN True ELSE Undefined

FirstNonEmpty(candidates) ==
    candidates[CHOOSE k \in 1..Len(candidates) :
                  candidates[k] /= << >> /\ \A j \in 1..(k - 1) : candidates[j] = << >>]

\* C9: an entry whose object has no name when the entry is loaded gives it
\* the first non-empty of the configured name, path, package and
\* "Plugin #<index>"; the name is non-empty, and no step after loading
\* changes any object's name.
C9_AssignedNamePriority ==
    [][/\ outcome'.op = "constructor" =>
            \A i \in 1..Len(pluginObjs') :
                LET o == pluginObjs'[i]
                    conf == outcome'.plugins[i]
                IN  (objs[o].name = << >> /\ \A j \in 1..(i - 1) : pluginObjs'[j] /= o) =>
                        /\ objs'[o].name =
                              FirstNonEmpty(<< conf.name, conf.path, conf.package,
                                               << "Plugin #", ToString(i - 1) >> >>)
                        /\ objs'[o].name /= << >>
       /\ phase = "loaded" => \A o \in ObjIds : objs'[o].name = objs[o].name]_vars

\* C9 witness: an object named by its position, after a dispatch that
\* invoked a hook has settled.
C9_Witness ==
    /\ \E o \in Registered : objs[o].name = << "Plugin #", "1" >>
    /\ outcome.op = "settled"
    /\ Len(outcome.value) > 0

\* The objects an entry can stand for
Candidates(conf) == ({conf.inline} \ {NoObj}) \cup {Require(ResolvedP), Require(conf.package)}

Unloadable(conf, matches) ==
    \/ conf.inline = NoObj /\ conf.path = << >> /\ conf.package = << >>
    \/ conf.path /= << >> /\ matches = << >>

ListOf(store, specName) ==
    IF HasSpec(store, specName)
    THEN store[CHOOSE k \in 1..Len(store) : store[k].specName = specName].list
    ELSE << >>

\* after is before with one more assertion, a failed one, at the end of the
\* list of "<name> Plugin Tests", and nothing else added or changed
OneFailureAdded(before, after, name) ==
    LET sn == name \o << " Plugin Tests" >>
        old == ListOf(before, sn)
        new == ListOf(after, sn)
    IN  /\ Len(new) = Len(old) + 1
        /\ SubSeq(new, 1, Len(old)) = old
        /\ ~new[Len(new)].passed
        /\ \A k \in 1..Len(before) :
              before[k].specName /= sn => after[k] = before[k]
        /\ \A k \in 1..Len(after) :
              after[k].specName /= sn => HasSpec(before, after[k].specName)
        /\ CountAssertions(after) = CountAssertions(before) + 1

\* The slots whose hook threw in the dispatch the outcome describes
Throwers(oc) == {k \in DOMAIN oc.outs : oc.outs[k].kind = "throw"}

BoomStore ==
    << [specName |-> << "A", " Plugin Tests" >>,
        list |-> << [passed |-> FALSE,
                     errorMsg |-> Str(<< "Failure during ", "setup", ": ", "boom" >>),
                     stackTrace |-> Str(Boom.stack)] >>] >>

\* C11: before results are reported, a failing hook call on an instance
\* named N adds exactly one assertion, a failed one, under "N Plugin Tests"
\* and nothing under another name; with the single plugin A whose setup
\* throws Error("boom"), the dispatch resolves to an array holding only the
\* fail value and getResults reports the one spec "A Plugin Tests" with the
\* one failed assertion "Failure during setup: boom" and failedCount 1.
C11_FailingHookAddsOneAssertion ==
    [][/\ (outcome'.op = "hookRejected" /\ ~resultsReported) =>
            LET d == DispatchById(inflight, outcome'.id)
            IN  OneFailureAdded(assertions, assertions',
                                objs[d.calls[outcome'.call].obj].name)
       /\ (outcome'.op = "dispatch" /\ ~resultsReported
             /\ Cardinality(Throwers(outcome')) = 1
             /\ \A k \in DOMAIN outcome'.outs : outcome'.outs[k].kind /= "body") =>
            LET k == CHOOSE x \in Throwers(outcome') : TRUE
            IN  OneFailureAdded(assertions, assertions', objs[pluginObjs[k]].name)
       /\ (outcome'.op = "dispatch" /\ ~resultsReported /\ assertions = << >>
             /\ Len(pluginObjs) = 1 /\ objs[pluginObjs[1]].name = << "A" >>
             /\ DOMAIN outcome'.outs = {1}
             /\ outcome'.outs[1] = [kind |-> "throw", cause |-> Boom]
             /\ DispatchById(inflight', outcome'.id).funName = "setup") =>
            LET d == DispatchById(inflight', outcome'.id)
            IN  /\ ~outcome'.raised
                /\ AllFulfilled(d)
                /\ ResultArray(d) = << FailReturnValOf("setup") >>
                /\ assertions' = BoomStore
       /\ (outcome'.op = "getResults" /\ assertions = BoomStore) =>
            /\ outcome'.value.failedCount = 1
            /\ Len(outcome'.value.specResults) = 1
            /\ outcome'.value.specResults[1].description = << "A", " Plugin Tests" >>
            /\ Len(outcome'.value.specResults[1].assertions) = 1
            /\ ~outcome'.value.specResults[1].assertions[1].passed
            /\ outcome'.value.specResults[1].assertions[1].errorMsg =
                  Str(<< "Failure during ", "setup", ": ", "boom" >>)]_vars

\* Runs of capability calls alone: up to MaxCapCalls calls of addFailure and
\* addSuccess by the registered instances, and getResults
AddFailureCaps ==
    /\ nPluginRuns < MaxCapCalls
    /\ \E o \in Registered, message \in Messages, info \in FailureInfos :
        CallAddAssertion("addFailure", o, info, FALSE, message)
AddSuccessCaps ==
    /\ nPluginRuns < MaxCapCalls
    /\ \E o \in Registered, info \in SuccessInfos :
        CallAddAssertion("addSuccess", o, info, TRUE, Undefined)
NextCaps ==
    \/ Load
    \/ GetResults
    \/ AddFailureCaps
    \/ AddSuccessCaps
SpecCaps == Init /\ [][NextCaps]_vars

SpecS == << "S" >>

\* The passed flags of a list of assertions, in order
PassedOf(list) == [k \in 1..Len(list) |-> list[k].passed]

\* C12: calls of addSuccess / addFailure that name the same specName
\* accumulate in one shared entry whichever instance makes them: before the
\* report, each call that names S appends one record to the end of the list
\* of S, passed for addSuccess and failed for addFailure, and changes no
\* other list; a call that does not name S leaves the list of S alone; and
\* getResults reports that list under the single entry S.
C12_SharedSpecAccumulates ==
    [][/\ (outcome'.op \in {"addSuccess", "addFailure"} /\ ~resultsReported) =>
            LET old == ListOf(assertions, SpecS)
                new == ListOf(assertions', SpecS)
                named == outcome'.info.t = "object" /\ outcome'.info.specName = Str(SpecS)
            IN  /\ ~outcome'.raised
                /\ named =>
                      /\ Len(new) = Len(old) + 1
                      /\ SubSeq(new, 1, Len(old)) = old
                      /\ new[Len(new)].passed = (outcome'.op = "addSuccess")
                      /\ \A k \in 1..Len(assertions) :
                            assertions[k].specName /= SpecS => assertions'[k] = assertions[k]
                      /\ CountAssertions(assertions') = CountAssertions(assertions) + 1
                /\ ~named => new = old
       /\ outcome'.op = "getResults" =>
            LET rs == outcome'.value.specResults
                at == {k \in 1..Len(rs) : rs[k].description = SpecS}
            IN  /\ Cardinality(at) = (IF HasSpec(assertions, SpecS) THEN 1 ELSE 0)
                /\ \A k \in at : rs[k].assertions = ListOf(assertions, SpecS)
                /\ outcome'.value.failedCount = Cardinality(FailedIn(assertions))]_vars

\* C12 witness: with two instances registered, getResults reports spec S
\* with three assertions, two passed and then one failed, and failedCount 1.
C12_Witness ==
    /\ outcome.op = "getResults"
    /\ Len(pluginObjs) = 2
    /\ pluginObjs[1] /= pluginObjs[2]
    /\ PassedOf(ListOf(assertions, SpecS)) = << TRUE, TRUE, FALSE >>
    /\ Len(outcome.value.specResults) = 1
    /\ Len(outcome.value.specResults[1].assertions) = 3
    /\ outcome.value.failedCount = 1

\* "Failure during <hookName>: " followed by the cause's message, or by the
\* cause itself when it has none
ExpectedMessage(funName, e) ==
    Str(<< "Failure during ", funName, ": " >>
        \o (IF e.t = "Error" /\ e.message /= << >> THEN e.message ELSE ToStr(e)))

\* The last assertion under "<name> Plugin Tests" is the failure of funName
\* with cause e: its message, and its stack trace when the cause has one
FailureRecorded(store, name, funName, e) ==
    LET list == ListOf(store, name \o << " Plugin Tests" >>)
    IN  /\ Len(list) > 0
        /\ LET a == list[Len(list)]
           IN  /\ ~a.passed
               /\ a.errorMsg = ExpectedMessage(funName, e)
               /\ e.t = "Error" =>
                     "stackTrace" \in DOMAIN a /\ a.stackTrace = Str(e.stack)

\* C13: when a hook fails before results are reported, the message handed to
\* the instance's addFailure is "Failure during <hookName>: " followed by the
\* cause's message when it has one and by the cause itself otherwise, and
\* the cause's stack trace is attached when present.
C13_FailureMessageNamesCause ==
    [][/\ (outcome'.op = "hookRejected" /\ ~resultsReported) =>
            LET d == DispatchById(inflight, outcome'.id)
            IN  FailureRecorded(assertions', objs[d.calls[outcome'.call].obj].name,
                                d.funName, outcome'.cause)
       /\ (outcome'.op = "dispatch" /\ ~resultsReported
             /\ Cardinality(Throwers(outcome')) = 1
             /\ \A k \in DOMAIN outcome'.outs : outcome'.outs[k].kind /= "body") =>
            LET k == CHOOSE x \in Throwers(outcome') : TRUE
            IN  FailureRecorded(assertions', objs[pluginObjs[k]].name,
                                DispatchById(inflight', outcome'.id).funName,
                                outcome'.outs[k].cause)]_vars

\* The lines of a report entry "<name> Runtime" with the one failed
\* assertion of funName failing with cause e
RuntimeEntry(name, funName, e) ==
    << [level |-> "info", pass |-> FALSE, text |-> name \o << " Runtime" >>],
       [level |-> "error", text |-> ExpectedMessage(funName, e).s] >>
    \o (IF e.t = "Error" THEN << [level |-> "error", text |-> e.stack] >> ELSE << >>)

\* C14: when a hook fails while resultsReported is true, the failure is
\* rendered at once as the entry "<instance.name> Runtime" with exactly one
\* failed assertion, the store and resultsReported stay as they were,
\* nothing is raised, and the call is fulfilled with the fail value.
C14_RuntimeEntryAfterReport ==
    [][/\ (outcome'.op = "hookRejected" /\ resultsReported) =>
            LET d == DispatchById(inflight, outcome'.id)
                after == DispatchById(inflight', outcome'.id).calls[outcome'.call]
            IN  /\ printed' = RuntimeEntry(objs[d.calls[outcome'.call].obj].name,
                                           d.funName, outcome'.cause)
                /\ assertions' = assertions
                /\ resultsReported'
                /\ ~outcome'.raised
                /\ after.state = "fulfilled"
                /\ after.value = FailReturnValOf(d.funName)
       /\ (outcome'.op = "dispatch" /\ resultsReported
             /\ Cardinality(Throwers(outcome')) = 1
             /\ \A k \in DOMAIN outcome'.outs : outcome'.outs[k].kind /= "body") =>
            LET k == CHOOSE x \in Throwers(outcome') : TRUE
                d == DispatchById(inflight', outcome'.id)
                at == {x \in 1..Len(d.calls) : d.calls[x].slot = k}
            IN  /\ printed' = RuntimeEntry(objs[pluginObjs[k]].name, d.funName,
                                           outcome'.outs[k].cause)
                /\ assertions' = assertions
                /\ resultsReported'
                /\ ~outcome'.raised
                /\ at /= {}
                /\ \A x \in at : /\ d.calls[x].state = "fulfilled"
                                 /\ d.calls[x].value = FailReturnValOf(d.funName)]_vars

\* C15: a dispatch invokes the hook on every eligible instance within the
\* dispatch step itself, whatever the earlier instances' hooks did: when the
\* step is over each eligible instance has its call, and the calls whose
\* hook returned an awaitable are pending together.
C15_FanOutWithoutWaiting ==
    [][outcome'.op = "dispatch" =>
        LET d == DispatchById(inflight', outcome'.id)
            invoked == {d.calls[x].slot : x \in 1..Len(d.calls)}
        IN  /\ invoked = Eligible(d.funName)
            /\ \A x \in 1..Len(d.calls) :
                  outcome'.outs[d.calls[x].slot].kind = "thenable" =>
                      d.calls[x].state = "pending"]_vars

InFlight(id) == \E d \in 1..Len(inflight) : inflight[d].id = id

\* The dispatch numbered id returned its combined awaitable and every hook
\* call of it has settled: the hook returned, threw, or the awaitable it
\* returned resolved or rejected
HooksSettled(id) ==
    /\ InFlight(id)
    /\ DispatchById(inflight, id).status = "pending"
    /\ \A c \in 1..Len(DispatchById(inflight, id).calls) :
          HookKnown(DispatchById(inflight, id).calls[c])

\* C16: a hook call that never settles holds back only the combined
\* awaitable of its own dispatch: every dispatch whose own hook calls have
\* all settled eventually settles, whatever the other dispatches' calls do,
\* and getResults and the capability handles stay callable.
C16_HungHookStallsOnlyItsDispatch ==
    /\ \A id \in 1..MaxPluginRuns : HooksSettled(id) ~> ~InFlight(id)
    /\ [](phase = "loaded" => ENABLED GetResults)
    /\ []((phase = "loaded" /\ pluginObjs /= << >> /\ nPluginRuns < MaxPluginRuns) =>
            (ENABLED AddFailure /\ ENABLED AddSuccess /\ ENABLED AddWarning))

\* C17: annotatePluginObj runs exactly once on each registered instance,
\* also when several entries reach the same object, and every instance
\* whose hook was invoked had been annotated before.
C17_AnnotatedExactlyOnce ==
    /\ \A o \in ObjIds : objs[o].annotated <= 1
    /\ phase = "loaded" => \A o \in Registered : objs[o].annotated = 1
    /\ \A dc \in OpenCalls :
          /\ phase = "loaded"
          /\ objs[dc[2].obj].annotated >= 1
          /\ objs[dc[2].obj].name /= << >>

\* C18 as claimed: an entry that names an inline definition loads that
\* object itself, whatever path or package it also carries; a module is
\* resolved only for entries without an inline definition.
C18_InlinePreferred ==
    outcome.op = "constructor" =>
        \A i \in 1..Len(pluginObjs) :
            LET conf == outcome.plugins[i]
            IN  IF conf.inline /= NoObj
                THEN pluginObjs[i] = conf.inline
                ELSE pluginObjs[i] \in {Require(ResolvedP), Require(conf.package)}

\* C18 as amended: a loaded entry that carries a path gets the module at the
\* first match of the path, one without a path that carries a package gets
\* the module of the package, whatever inline definition it also names; the
\* inline object is the instance only of entries with neither.
C18_ModulePreferred ==
    outcome.op = "constructor" =>
        \A i \in 1..Len(pluginObjs) :
            LET conf == outcome.plugins[i]
            IN  /\ conf.path /= << >> =>
                      pluginObjs[i] = Require(outcome.matches[1])
                /\ (conf.path = << >> /\ conf.package /= << >>) =>
                      pluginObjs[i] = Require(conf.package)
                /\ (conf.path = << >> /\ conf.package = << >>) =>
                      pluginObjs[i] = conf.inline /\ conf.inline /= NoObj

\* C18 witness: a registry was built from an entry that names both an
\* inline definition and a package, and holds the package's module.
C18_Witness ==
    /\ outcome.op = "constructor"
    /\ ~outcome.raised
    /\ \E i \in 1..Len(pluginObjs) :
          /\ outcome.plugins[i].inline /= NoObj
          /\ outcome.plugins[i].path = << >>
          /\ outcome.plugins[i].package /= << >>
          /\ pluginObjs[i] = Require(outcome.plugins[i].package)
          /\ pluginObjs[i] /= outcome.plugins[i].inline

\* C19: a second getResults, after any operations since the first, returns
\* the failedCount and specResults the first returned and leaves
\* resultsReported true: the first call returns what the store holds when it
\* is over, no later step changes what the store flattens to, and every
\* later call returns just that.
C19_SecondGetResultsSame ==
    [][/\ outcome'.op = "getResults" =>
            /\ resultsReported'
            /\ outcome'.value = ResultsOf(assertions')
       /\ resultsReported =>
            /\ resultsReported'
            /\ ResultsOf(assertions') = ResultsOf(assertions)]_vars

\* C19 witness: getResults is called again, with a failure in the store,
\* after a hook failed since the first call: its call is fulfilled, and the
\* store has no entry of its instance because the failure came after the
\* report.
C19_Witness ==
    /\ outcome.op = "getResults"
    /\ resultsReported
    /\ outcome.value.failedCount > 0
    /\ \E dc \in OpenCalls :
          /\ HookFailed(dc[2])
          /\ dc[2].state = "fulfilled"
          /\ ~HasSpec(assertions, objs[dc[2].obj].name \o << " Plugin Tests" >>)

\* The slots whose hook body called a handle in the dispatch of the outcome
BodyCallers(oc) == {k \in DOMAIN oc.outs : oc.outs[k].kind = "body"}

\* C20: what happens to a hook failure is decided by resultsReported when
\* the failure is observed, not when the hook was dispatched: a hook
\* dispatched before getResults whose awaitable rejects after it adds
\* nothing to the store, raises nothing, is rendered as "<name> Runtime" and
\* is fulfilled with the fail value; a hook whose body calls addFailure or
\* addSuccess after the report has the error caught: the dispatch does not
\* throw, the store is unchanged and the call is fulfilled with the fail
\* value.
C20_DecidedWhenObserved ==
    [][/\ outcome'.op = "hookRejected" =>
            LET d == DispatchById(inflight, outcome'.id)
                name == objs[d.calls[outcome'.call].obj].name
                after == DispatchById(inflight', outcome'.id).calls[outcome'.call]
            IN  resultsReported =>
                    /\ assertions' = assertions
                    /\ ~outcome'.raised
                    /\ printed' = RuntimeEntry(name, d.funName, outcome'.cause)
                    /\ after.state = "fulfilled"
                    /\ after.value = FailReturnValOf(d.funName)
       /\ (outcome'.op = "dispatch" /\ resultsReported /\ Throwers(outcome') = {}) =>
            LET d == DispatchById(inflight', outcome'.id)
            IN  \A x \in 1..Len(d.calls) :
                    d.calls[x].slot \in BodyCallers(outcome') =>
                        /\ ~outcome'.raised
                        /\ assertions' = assertions
                        /\ d.calls[x].state = "fulfilled"
                        /\ d.calls[x].value = FailReturnValOf(d.funName)]_vars

\* Loading alone, over every configuration list up to MaxPlugins entries
InitLoad == InitIn(AllWorlds)
LoadAny ==
    /\ phase = "new"
    /\ \E confs \in AllConfigs, matches \in MatchSets : Construct(confs, matches)
NextLoad == LoadAny
SpecLoad == InitLoad /\ [][NextLoad]_vars

====
